---- MODULE Spec2Model ----
(***************************************************************************)
(* Prize-wheel raffle widget: the spin engine (spin / stop / reset and the *)
(* animation-frame callbacks), the participant roster and its ordering     *)
(* policy.  Two product variants live in the repository:                   *)
(*   "wheel"  - src/unnamed/part_000 (isReturning flag, 12 s spin)         *)
(*   "titled" - src/App.tsx          (raffle title required, 19 s spin)    *)
(* Every handler is one atomic action: React commits the state updates a   *)
(* handler queued (and runs the effects that depend on them) before the    *)
(* next event is dispatched, so the next handler closes over that state.   *)
(*                                                                         *)
(* Angles are integers in units of 1/Unit degree.  A spin frame arrives at *)
(* elapsed = k/10 of the spin duration, where easeOutExpo is 1 - 2^-k; a   *)
(* return frame arrives at elapsed = 0 or 1/2 of the return duration,      *)
(* where easeOutCubic is 0 or 7/8.  Unit makes these interpolations exact  *)
(* for rosters of up to six names.                                         *)
(* One more spin frame may arrive in the last 800 ms of the spin, where    *)
(* the eased progress is taken as 1 - 2^-10 and the angle is rounded to    *)
(* the unit.                                                               *)
(*                                                                         *)
(* The audio side is kept as far as it bears on the engine: whether an     *)
(* audio context exists, the background melody's pending timeouts, the     *)
(* tick and win sounds played, the errors logged, and the unmount.         *)
(***************************************************************************)
EXTENDS Integers, Sequences, FiniteSets, TLC

VARIABLES variant, participants, wheelParticipants, winner, isSpinning,
          isReturning, rotation, preSpinRotation, tickCount, winnerHistory,
          raffleTitle, raffleError, animationFrameId, pending,
          spins, last, cancelledRuns, audio, mounted

vars == <<variant, participants, wheelParticipants, winner, isSpinning,
          isReturning, rotation, preSpinRotation, tickCount, winnerHistory,
          raffleTitle, raffleError, animationFrameId, pending,
          spins, last, cancelledRuns, audio, mounted>>

\* ------------------------------------------------------------------ bounds
\* largest k for which a spin frame at elapsed = k/10 of the duration is drawn
MaxK == 1
\* number of spins that may be accepted in one behaviour
MaxSpins == 2
\* largest roster the engine-only specification starts from
MaxN == 4
\* longest list of names pasted into the Add List dialog
MaxBatch == 2
\* number of console.error calls followed in one behaviour
MaxErrors == 2

\* ------------------------------------------------------------- text helpers
\* names and titles are sequences of one-character strings
Null == <<>>

IsAlpha(ch) == ch \in {"a", "b", "A", "B"}

LowerChar(ch) == IF ch = "A" THEN "a" ELSE IF ch = "B" THEN "b" ELSE ch

toLowerCase(s) == [i \in 1..Len(s) |-> LowerChar(s[i])]

RECURSIVE trimStart(_)
trimStart(s) == IF s # <<>> /\ Head(s) = " " THEN trimStart(Tail(s)) ELSE s

RECURSIVE trimEnd(_)
trimEnd(s) ==
    IF s # <<>> /\ s[Len(s)] = " " THEN trimEnd(SubSeq(s, 1, Len(s) - 1)) ELSE s

trim(s) == trimEnd(trimStart(s))

getCoreName(name) ==
    IF name = <<>> THEN <<>>
    ELSE LET alphabeticOnly == SelectSeq(name, IsAlpha)
         IN  IF alphabeticOnly # <<>> THEN alphabeticOnly ELSE trim(name)

\* raw names offered to addParticipant
RawNames == { <<"a">>, <<" ", "b">>, <<" ">> }

\* raffle titles that can be typed into the title field
Titles == { <<" ">>, <<"r">> }

\* ------------------------------------------------------------ angle helpers
RECURSIVE Pow2(_)
Pow2(k) == IF k = 0 THEN 1 ELSE 2 * Pow2(k - 1)

Unit == 40 * Pow2(MaxK)

FullTurn == 360 * Unit

\* Math.random() draws, in quarters: r = q / 4
JitterQuarters == {0, 3}

segmentAngle(n) == FullTurn \div n

winnerAngle(n, w) == segmentAngle(n) * w + segmentAngle(n) \div 2

targetStopAngle(n, w) == (FullTurn - winnerAngle(n, w) + FullTurn) % FullTurn

fullRotations == 12 * FullTurn

\* a jitter of 0.6 of a segment each way
randomOffsetWide(n, q) == (segmentAngle(n) * 12 * q) \div 40 - (segmentAngle(n) * 6) \div 10

\* Math.random() * segmentAngle * 0.8 - segmentAngle * 0.4, with r = q / 4
randomOffset(n, q) == (segmentAngle(n) * 8 * q) \div 40 - (segmentAngle(n) * 4) \div 10

\* the target without the twelve full turns
targetRotationNoTurns(n, w, q) == targetStopAngle(n, w) + randomOffset(n, q)

targetRotation(n, w, q) == fullRotations + targetStopAngle(n, w) + randomOffset(n, q)

\* the interpolation run from the target back to the start
spinRotationAtBackwards(c, k) ==
    c.target - ((c.target - c.start) - (c.target - c.start) \div Pow2(k))

\* the frame that arrives in the last 800 ms of the spin, placed between the
\* frames at k/10 (k <= MaxK) and the completing one
LateFrames == {9}

\* 10 * progress, where easeOutExpo is 1 - 2^-(10 * progress); the late frame
\* is drawn just before the end of the spin
easeExponent(k) == IF k \in LateFrames THEN 10 ELSE k

\* startRotation + (targetRotation - startRotation) * easeOutExpo(k / 10),
\* rounded to the angle unit
spinRotationAt(c, k) ==
    c.start + ((c.target - c.start) - (c.target - c.start) \div Pow2(easeExponent(k)))

\* Math.floor(angle / segmentAngle)
tickIndex(angle, seg) == angle \div seg

\* the comparison made with >= in place of >
tickCrossedOrSame(cur, lastTickAngle, seg) ==
    tickIndex(cur, seg) >= tickIndex(lastTickAngle, seg)

\* if (currentAngle > lastAngle)
tickCrossed(cur, lastTickAngle, seg) == tickIndex(cur, seg) > tickIndex(lastTickAngle, seg)

\* start + (target - start) * easeOutCubic(h / 2), h in {0, 1}
returnRotationAt(c, h) ==
    IF h = 0 THEN c.start ELSE c.start + ((c.target - c.start) * 7) \div 8

\* index of the wheel segment that contains wheel angle theta (Wheel.tsx:
\* segment i is drawn from segmentAngle * i to segmentAngle * (i + 1))
segmentAt(theta, n) == theta \div segmentAngle(n)

\* wheel angle under the fixed pointer at the top when the wheel is rotated by R
pointerAngle(R) == (FullTurn - (R % FullTurn)) % FullTurn

\* ------------------------------------------------------- frame callbacks
NoCb == [id |-> 0, kind |-> "none", run |-> 0, elapsed |-> -1, lastTickAngle |-> 0,
         start |-> 0, target |-> 0, n |-> 0, widx |-> 0, names |-> <<>>,
         title |-> <<>>, endsSpin |-> FALSE, ticks0 |-> 0, soundTriggered |-> FALSE]

\* requestAnimationFrame: a handle that no callback of cbs (those still
\* scheduled) has; handles are only ever compared with one another
newFrameId(cbs) ==
    CHOOSE i \in 1..(Cardinality(cbs) + 1) : \A c \in cbs : c.id # i

\* a cancelAnimationFrame that cancels nothing
cancelFrameNothing(cbs, id) == cbs

\* cancelAnimationFrame(animationFrameId.current)
cancelFrame(cbs, id) == { c \in cbs : c.id # id }

\* ----------------------------------------------------------------- phase
\* the spec's Idle / Spinning / Returning, read off the component state; the
\* titled variant has no isReturning flag: it is Returning while its return
\* animation is the pending frame callback
Phase ==
    IF isReturning THEN "Returning"
    ELSE IF isSpinning
         THEN IF variant = "titled" /\ \E c \in pending : c.kind = "return"
              THEN "Returning" ELSE "Spinning"
         ELSE "Idle"

PrizeWheelRaffle == <<"P">>

GeneralRaffle == <<"G">>

RaffleNameRequired == "Raffle name is required"

\* ------------------------------------------------------------------ audio
\* audioRef and isMuted, with counts of what was played and logged:
\*   available        new AudioContext() succeeds in this browser
\*   context          audioRef.current.context: "none", "running" or "closed"
\*   backgroundMusic  audioRef.current.backgroundMusic is set
\*   timeouts         melody timeouts of backgroundMusic.timeouts still pending
\*   isMuted          the isMuted state
\*   errors           console.error calls made
\*   tickSounds       calls of tickSound
\*   winSounds        the spin each call of winSound was made for, in order
\*   winTimers        spins whose setTimeout(winSound, 0) is still pending
\*   stale            a timer callback of the widget ran after the unmount
AudioAtLoad(available) ==
    [available |-> available, context |-> "none", backgroundMusic |-> FALSE,
     timeouts |-> 0, isMuted |-> TRUE, errors |-> 0, tickSounds |-> 0,
     winSounds |-> <<>>, winTimers |-> {}, stale |-> FALSE]

\* if (!audioRef.current.context) { try { ... = new AudioCtxt(); }
\*                                  catch (e) { console.error(...); } }
createContext(a) ==
    IF a.context # "none" THEN a
    ELSE IF a.available THEN [a EXCEPT !.context = "running"]
    ELSE [a EXCEPT !.errors = @ + 1]

\* the handler can be followed: it logs nothing, or the log has room
canCreateContext(a) == a.context # "none" \/ a.available \/ a.errors < MaxErrors

\* if (context && !audioRef.current.tickSound) { audioRef.current.tickSound =
\* ... }: the triggers exist once a handler ran with a context
soundReady(a) == a.context # "none"

\* if (audioRef.current.tickSound) audioRef.current.tickSound();
playTick(a) == IF soundReady(a) THEN [a EXCEPT !.tickSounds = @ + 1] ELSE a

\* if (audioRef.current.winSound) audioRef.current.winSound();
playWin(a, run) == IF soundReady(a) THEN [a EXCEPT !.winSounds = Append(@, run)] ELSE a

\* ------------------------------------------------------------------- Init
Init ==
    /\ variant \in {"wheel", "titled"}
    /\ participants = <<>>
    /\ wheelParticipants = <<>>
    /\ winner = Null
    /\ isSpinning = FALSE
    /\ isReturning = FALSE
    /\ rotation = 0
    /\ preSpinRotation = 0
    /\ tickCount = 0
    /\ winnerHistory = <<>>
    /\ raffleTitle = <<>>
    /\ raffleError = ""
    /\ animationFrameId = 0
    /\ pending = {}
    /\ spins = 0
    /\ last = ""
    /\ cancelledRuns = {}
    /\ audio = AudioAtLoad(TRUE)
    /\ mounted = TRUE

rosterVars == <<participants, wheelParticipants>>

titleVars == <<raffleTitle, raffleError>>

audioVars == <<audio, mounted>>

engineVars == <<winner, isSpinning, isReturning, rotation, preSpinRotation,
                tickCount, winnerHistory, animationFrameId, pending, spins,
                cancelledRuns, audioVars>>

\* ------------------------------------------------------------ spin()
\* a spin() that never asks for the title
titleMissingNever == FALSE

\* if (!raffleTitle.trim()) { setRaffleError(...); return; }   (titled only)
titleMissing == variant = "titled" /\ trim(raffleTitle) = <<>>

\* the guard with its re-entrancy terms dropped
spinRejectedNoReentry == Len(wheelParticipants) < 2

\* the guard with its roster-size term dropped
spinRejectedAnySize == isSpinning \/ (variant = "wheel" /\ isReturning)

\* if (wheelParticipants.length < 2 || isSpinning || isReturning) return;
\* (the titled variant has no isReturning term)
spinRejected ==
    \/ Len(wheelParticipants) < 2
    \/ isSpinning
    \/ (variant = "wheel" /\ isReturning)

\* the frame callback `spin` with the values its closure captures
spinCallback(w, q) ==
    [id |-> newFrameId(pending), kind |-> "spin", run |-> spins + 1, elapsed |-> -1,
     lastTickAngle |-> rotation % FullTurn,
     start |-> rotation % FullTurn,
     target |-> targetRotation(Len(wheelParticipants), w, q),
     n |-> Len(wheelParticipants), widx |-> w, names |-> wheelParticipants,
     title |-> raffleTitle, endsSpin |-> FALSE, ticks0 |-> tickCount,
     soundTriggered |-> FALSE]

\* the winner left on display when a spin is accepted
winnerOnSpinKept == winner

\* setWinner(null) of handleSpin
winnerOnSpin == Null

\* handleSpin past its guards
HandleSpinAccepted ==
    /\ spins < MaxSpins
    /\ canCreateContext(audio)
    /\ \E w \in 0..(Len(wheelParticipants) - 1), q \in JitterQuarters :
         LET c == spinCallback(w, q)
         IN  /\ pending' = pending \cup {c}
             /\ animationFrameId' = c.id
             /\ last' = ""
    /\ preSpinRotation' = rotation
    /\ raffleError' = ""
    /\ audio' = createContext(audio)
    /\ isSpinning' = TRUE
    /\ winner' = winnerOnSpin
    /\ spins' = spins + 1
    /\ UNCHANGED <<variant, rosterVars, raffleTitle, isReturning, rotation,
                   tickCount, winnerHistory, cancelledRuns, mounted>>

HandleSpin ==
    /\ mounted
    /\ IF titleMissing
       THEN /\ raffleError' = RaffleNameRequired
            /\ last' = ""
            /\ UNCHANGED <<variant, rosterVars, raffleTitle, engineVars>>
       ELSE IF spinRejected
       THEN /\ last' = "spinNoop"
            /\ UNCHANGED <<variant, rosterVars, titleVars, engineVars>>
       ELSE HandleSpinAccepted

\* ------------------------------------------------- the spin frame callback
\* elapsed times a frame can report: the first call sets startTime, so it sees
\* elapsed 0; later calls see a larger elapsed, 10 standing for >= duration
spinElapsed(c) ==
    IF c.elapsed = -1 THEN {0}
    ELSE ((c.elapsed + 1)..MaxK) \cup { k \in LateFrames : c.elapsed < k } \cup {10}

\* the winner read from the master roster instead of the wheel roster
finalWinnerOfMaster(c) == participants[c.widx + 1]

\* const finalWinner = wheelParticipants[winnerIndex]  (closure's roster)
finalWinner(c) == c.names[c.widx + 1]

\* raffleTitle written into the Winner Record
recordTitle(c) ==
    IF variant = "wheel" THEN PrizeWheelRaffle
    ELSE IF trim(c.title) # <<>> THEN trim(c.title) ELSE GeneralRaffle

newWinnerEntry(c) == [winnerName |-> finalWinner(c), raffleTitle |-> recordTitle(c)]

\* the new record put in front of the history
prependRecord(history, entry) == <<entry>> \o history

\* setWinnerHistory(prev => [...prev, newWinnerEntry])
appendRecord(history, entry) == Append(history, entry)

\* if (elapsedTime >= soundTriggerTime && !soundTriggered)   (titled only;
\* soundTriggerTime = duration - 800)
soundDue(c, k) ==
    variant = "titled" /\ k \in {10} \cup LateFrames /\ ~c.soundTriggered

\* audio after the top of the frame callback: the titled variant plays the
\* win sound there once the trigger time is reached
audioAtFrame(c, k) == IF soundDue(c, k) THEN playWin(audio, c.run) ELSE audio

\* setTimeout(() => { if (winSound) winSound(); }, 0) of the completion
\* branch (part_000 only)
winTimersAfter(a, run) ==
    IF variant = "wheel" THEN [a EXCEPT !.winTimers = @ \cup {run}] ELSE a

SpinFrame ==
    \E c \in pending : \E k \in spinElapsed(c) :
      /\ c.kind = "spin"
      /\ IF k = 10
         THEN /\ rotation' = c.target
              /\ winner' = finalWinner(c)
              /\ isSpinning' = FALSE
              /\ winnerHistory' = appendRecord(winnerHistory, newWinnerEntry(c))
              /\ audio' = winTimersAfter(audioAtFrame(c, k), c.run)
              /\ pending' = cancelFrame(pending \ {c}, animationFrameId)
              /\ animationFrameId' = 0
              /\ last' = ""
              /\ UNCHANGED tickCount
         ELSE LET cur  == spinRotationAt(c, k)
                  next == [c EXCEPT !.id = newFrameId(pending \ {c}), !.elapsed = k,
                                    !.lastTickAngle = cur,
                                    !.soundTriggered = @ \/ soundDue(c, k)]
                  crossed == tickCrossed(cur, c.lastTickAngle, segmentAngle(c.n))
              IN  /\ tickCount' = IF crossed THEN tickCount + 1 ELSE tickCount
                  /\ audio' = IF crossed THEN playTick(audioAtFrame(c, k))
                                         ELSE audioAtFrame(c, k)
                  /\ rotation' = cur
                  /\ pending' = (pending \ {c}) \cup {next}
                  /\ animationFrameId' = next.id
                  /\ last' = ""
                  /\ UNCHANGED <<winner, isSpinning, winnerHistory>>
      /\ UNCHANGED <<variant, rosterVars, titleVars, isReturning, preSpinRotation,
                     spins, cancelledRuns, mounted>>

\* the timer set by the completion branch runs
WinSoundTimer ==
    \E run \in audio.winTimers :
      /\ audio' = [playWin(audio, run) EXCEPT !.winTimers = @ \ {run},
                                              !.stale = @ \/ ~mounted]
      /\ last' = ""
      /\ UNCHANGED <<variant, rosterVars, titleVars, winner, isSpinning, isReturning,
                     rotation, preSpinRotation, tickCount, winnerHistory,
                     animationFrameId, pending, spins, cancelledRuns, mounted>>

\* ------------------------------------------- return-to-rest animation
\* the return animation started without cancelling the scheduled frame
cancelPendingSkipped == pending

\* if (animationFrameId.current) { cancelAnimationFrame(...); ... = null; }
cancelPending == IF animationFrameId # 0 THEN cancelFrame(pending, animationFrameId) ELSE pending

\* the return animation aimed at the rest angle of the current turn
targetReturnRotationRest == rotation - (rotation % FullTurn)

\* target of the return animation: const targetReturnRotation = preSpinRotation
targetReturnRotation == preSpinRotation

\* the frame callback `animateReturn` with the values its closure captures
returnCallback(endsSpin) ==
    [id |-> newFrameId(cancelPending), kind |-> "return", run |-> 0, elapsed |-> -1,
     lastTickAngle |-> 0, start |-> rotation, target |-> targetReturnRotation,
     n |-> 0, widx |-> 0, names |-> <<>>, title |-> <<>>,
     endsSpin |-> endsSpin, ticks0 |-> 0, soundTriggered |-> FALSE]

\* animateWheelToStart(onComplete) of the wheel variant, and the body of the
\* titled variant's handleStopSpin
animateWheelToStart(endsSpin) ==
    LET c == returnCallback(endsSpin)
    IN  /\ pending' = cancelPending \cup {c}
        /\ animationFrameId' = c.id
        /\ isReturning' = (variant = "wheel")

returnElapsed(c) ==
    IF c.elapsed = -1 THEN {0} ELSE ((c.elapsed + 1)..1) \cup {2}

\* isSpinning after the return animation ends: the wheel variant clears it
\* only through the onComplete callback that handleStopSpin passes
spinningAfterReturn(c) == IF c.endsSpin THEN FALSE ELSE isSpinning

ReturnFrame ==
    \E c \in pending : \E h \in returnElapsed(c) :
      /\ c.kind = "return"
      /\ IF h = 2
         THEN /\ rotation' = c.target
              /\ pending' = cancelFrame(pending \ {c}, animationFrameId)
              /\ animationFrameId' = 0
              /\ isReturning' = FALSE
              /\ isSpinning' = spinningAfterReturn(c)
              /\ last' = ""
         ELSE LET next == [c EXCEPT !.id = newFrameId(pending \ {c}), !.elapsed = h]
              IN  /\ rotation' = returnRotationAt(c, h)
                  /\ pending' = (pending \ {c}) \cup {next}
                  /\ animationFrameId' = next.id
                  /\ last' = ""
                  /\ UNCHANGED <<isReturning, isSpinning>>
      /\ UNCHANGED <<variant, rosterVars, titleVars, winner, preSpinRotation,
                     tickCount, winnerHistory, spins, cancelledRuns, audioVars>>

\* ------------------------------------------------------------ stop()
\* the guard with its !isSpinning term dropped
stopRejectedWhenReturning == variant = "wheel" /\ isReturning

\* if (!isSpinning || isReturning) return;   (titled: if (!isSpinning) return;)
stopRejected == ~isSpinning \/ (variant = "wheel" /\ isReturning)

\* (the stop sound that handleStopSpin plays is not counted)
HandleStopSpin ==
    /\ mounted
    /\ IF stopRejected
       THEN /\ last' = ""
            /\ UNCHANGED <<variant, rosterVars, titleVars, engineVars>>
       ELSE /\ animateWheelToStart(TRUE)
            /\ cancelledRuns' = cancelledRuns \cup
                                  { c.run : c \in { d \in pending : d.kind = "spin" } }
            /\ last' = ""
            /\ UNCHANGED <<variant, rosterVars, titleVars, winner, isSpinning,
                           rotation, preSpinRotation, tickCount, winnerHistory,
                           spins, audioVars>>

\* ------------------------------------------------------------ reset()
\* wheel: if (isReturning) return; setWinner(null); animateWheelToStart();
\* titled: setWinner(null);
resetEngine ==
    IF variant = "titled"
    THEN /\ winner' = Null
         /\ UNCHANGED <<isReturning, animationFrameId, pending>>
    ELSE IF isReturning
    THEN UNCHANGED <<winner, isReturning, animationFrameId, pending>>
    ELSE /\ winner' = Null
         /\ animateWheelToStart(FALSE)

ResetRaffle ==
    /\ mounted
    /\ resetEngine
    /\ last' = ""
    /\ UNCHANGED <<variant, rosterVars, titleVars, isSpinning, rotation,
                   preSpinRotation, tickCount, winnerHistory, spins, cancelledRuns,
                   audioVars>>

\* --------------------------------------------------------------- roster
\* the roster controls (name field, Add, Add List, Shuffle, the remove buttons,
\* Clear All, the title field) are rendered with disabled={isSpinning}: a
\* click on a disabled control dispatches no handler
controlsDisabled == isSpinning

\* the wheel given the master roster back to front
syncedWheelReversed(master) == [i \in 1..Len(master) |-> master[Len(master) + 1 - i]]

\* useEffect(() => { setWheelParticipants(participants); }, [participants])
syncedWheel(master) == master

\* participants.some(p => p.toLowerCase() === newName.toLowerCase())
isDuplicate(list, newName) ==
    \E i \in 1..Len(list) : toLowerCase(list[i]) = toLowerCase(newName)

sameCore(p, q) == toLowerCase(getCoreName(p)) = toLowerCase(getCoreName(q))

\* index of the first entry with the candidate's core name
firstSimilarIndex(list, newName) ==
    IF getCoreName(newName) = <<>> THEN 0
    ELSE LET S == { i \in 1..Len(list) : sameCore(list[i], newName) }
         IN  IF S = {} THEN 0 ELSE CHOOSE i \in S : \A j \in S : i <= j

\* index (1-based, 0 for none) of the last entry with the candidate's core name
lastSimilarIndex(list, newName) ==
    IF getCoreName(newName) = <<>> THEN 0
    ELSE LET S == { i \in 1..Len(list) : sameCore(list[i], newName) }
         IN  IF S = {} THEN 0 ELSE CHOOSE i \in S : \A j \in S : j <= i

\* the new name always pushed to the end of the roster
appendName(list, newName) == Append(list, newName)

\* newList.splice(lastSimilarIndex + 1, 0, newName) / newList.push(newName)
insertName(list, newName) ==
    LET i == lastSimilarIndex(list, newName)
    IN  IF i # 0
        THEN SubSeq(list, 1, i) \o <<newName>> \o SubSeq(list, i + 1, Len(list))
        ELSE Append(list, newName)

\* the guard with the duplicate test dropped
addRejectedBlankOnly(list, newName) == newName = <<>>

\* if (!newName || participants.some(...)) return;
addRejected(list, newName) == newName = <<>> \/ isDuplicate(list, newName)

\* the name inserted as typed, without trimming
addedToUntrimmed(list, name) ==
    IF addRejected(list, trim(name)) THEN list ELSE insertName(list, name)

\* the roster after addParticipant(name)
addedTo(list, name) ==
    LET newName == trim(name)
    IN  IF addRejected(list, newName) THEN list ELSE insertName(list, newName)

\* addParticipant(name); the effect on [participants] copies a changed roster
\* to the wheel
addParticipant(name) ==
    IF ~mounted THEN FALSE
    ELSE IF controlsDisabled
    THEN /\ last' = ""
         /\ UNCHANGED <<variant, rosterVars, titleVars, engineVars>>
    ELSE IF addRejected(participants, trim(name))
    THEN /\ last' = "addNoop"
         /\ UNCHANGED <<variant, rosterVars, titleVars, engineVars>>
    ELSE /\ participants' = addedTo(participants, name)
         /\ wheelParticipants' = syncedWheel(participants')
         /\ last' = ""
         /\ UNCHANGED <<variant, titleVars, engineVars>>

AddParticipant == \E name \in RawNames : addParticipant(name)

\* the batch loop with a dedup set that is never extended
RECURSIVE addBatchStaleSet(_, _, _)
addBatchStaleSet(newParticipants, existingNamesLower, names) ==
    IF names = <<>> THEN newParticipants
    ELSE LET newName == trim(Head(names))
         IN  IF newName = <<>> \/ toLowerCase(newName) \in existingNamesLower
             THEN addBatchStaleSet(newParticipants, existingNamesLower, Tail(names))
             ELSE addBatchStaleSet(insertName(newParticipants, newName),
                                   existingNamesLower, Tail(names))

\* for (const name of names) { ... } of addMultipleParticipants: the running
\* copy of the roster and the growing set of lower-cased names
RECURSIVE addBatch(_, _, _)
addBatch(newParticipants, existingNamesLower, names) ==
    IF names = <<>> THEN newParticipants
    ELSE LET newName == trim(Head(names))
         IN  IF newName = <<>> \/ toLowerCase(newName) \in existingNamesLower
             THEN addBatch(newParticipants, existingNamesLower, Tail(names))
             ELSE addBatch(insertName(newParticipants, newName),
                           existingNamesLower \cup {toLowerCase(newName)},
                           Tail(names))

\* the batch add run with the dedup set of the starting roster throughout
batchAddedToStaleSet(list, names) ==
    addBatchStaleSet(list, { toLowerCase(list[i]) : i \in 1..Len(list) }, names)

\* the roster after addMultipleParticipants(names)
batchAddedTo(list, names) ==
    addBatch(list, { toLowerCase(list[i]) : i \in 1..Len(list) }, names)

\* addMultipleParticipants(names): setParticipants always gets a new array,
\* so the effect on [participants] copies it to the wheel
addMultipleParticipants(names) ==
    /\ mounted
    /\ ~controlsDisabled
    /\ participants' = batchAddedTo(participants, names)
    /\ wheelParticipants' = syncedWheel(participants')
    /\ last' = "batch"
    /\ UNCHANGED <<variant, titleVars, engineVars>>

\* prev.filter((_, index) => index !== indexToRemove)
removeAt(list, i) == SubSeq(list, 1, i - 1) \o SubSeq(list, i + 1, Len(list))

RemoveParticipant ==
    \E i \in 1..Len(participants) :
      /\ mounted
      /\ ~controlsDisabled
      /\ participants' = removeAt(participants, i)
      /\ wheelParticipants' = syncedWheel(participants')
      /\ last' = ""
      /\ UNCHANGED <<variant, titleVars, engineVars>>

\* a filter that drops the winner's own entry only
withoutExact(list, winnerName) == SelectSeq(list, LAMBDA p : p # winnerName)

\* prev.filter(p => getCoreName(p).toLowerCase() !== coreName.toLowerCase())
withoutCore(list, winnerName) ==
    SelectSeq(list, LAMBDA p : ~sameCore(p, winnerName))

\* called from the winner overlay with the current winner
RemoveWinnerEntries ==
    /\ mounted
    /\ winner # Null
    /\ IF getCoreName(winner) # <<>>
       THEN /\ participants' = withoutCore(participants, winner)
            /\ wheelParticipants' = syncedWheel(participants')
       ELSE UNCHANGED rosterVars
    /\ resetEngine
    /\ last' = IF Len(participants') = Len(participants) THEN ""
               ELSE IF Len(participants') = Len(participants) - 1 THEN "removedOne"
               ELSE "removedSeveral"
    /\ UNCHANGED <<variant, titleVars, isSpinning, rotation, preSpinRotation,
                   tickCount, winnerHistory, spins, cancelledRuns, audioVars>>

\* the audio set-up at the top of shuffleWheel and clearAll (part_000 only;
\* the titled variant's handlers have none)
audioAfterRosterSound(a) == IF variant = "wheel" THEN createContext(a) ELSE a

ClearAll ==
    /\ mounted
    /\ ~controlsDisabled
    /\ participants # <<>>
    /\ variant = "wheel" => canCreateContext(audio)
    /\ audio' = audioAfterRosterSound(audio)
    /\ participants' = <<>>
    /\ wheelParticipants' = syncedWheel(participants')
    /\ winner' = Null
    /\ last' = ""
    /\ UNCHANGED <<variant, titleVars, isSpinning, isReturning, rotation,
                   preSpinRotation, tickCount, winnerHistory, animationFrameId,
                   pending, spins, cancelledRuns, mounted>>

\* [shuffled[i], shuffled[j]] = [shuffled[j], shuffled[i]]  (1-based here)
swap(s, i, j) == [s EXCEPT ![i] = s[j], ![j] = s[i]]

\* the loop with j drawn below i only (never j = i)
RECURSIVE fisherYatesBelow(_, _)
fisherYatesBelow(s, i) ==
    IF i < 2 THEN {s}
    ELSE UNION { fisherYatesBelow(swap(s, i, j), i - 1) : j \in 1..(i - 1) }

\* results of the Fisher-Yates loop from 1-based position i down to 2, each
\* j = Math.floor(Math.random() * (i + 1)) drawn freely
RECURSIVE fisherYates(_, _)
fisherYates(s, i) ==
    IF i < 2 THEN {s}
    ELSE UNION { fisherYates(swap(s, i, j), i - 1) : j \in 1..i }

\* results of a shuffle that never leaves an entry in place
shuffledBelow(s) == fisherYatesBelow(s, Len(s))

\* the possible results of the shuffle loop on s
shuffled(s) == fisherYates(s, Len(s))

\* the Shuffle button enabled during a spin as well
shuffleDisabledNever == FALSE

shuffleDisabled == controlsDisabled

ShuffleWheel ==
    /\ mounted
    /\ IF shuffleDisabled
       THEN /\ last' = "shuffleNoop"
            /\ UNCHANGED <<variant, rosterVars, titleVars, engineVars>>
       ELSE /\ variant = "wheel" => canCreateContext(audio)
            /\ audio' = audioAfterRosterSound(audio)
            /\ wheelParticipants' \in shuffled(wheelParticipants)
            /\ last' = ""
            /\ UNCHANGED <<variant, participants, titleVars, winner, isSpinning,
                           isReturning, rotation, preSpinRotation, tickCount,
                           winnerHistory, animationFrameId, pending, spins,
                           cancelledRuns, mounted>>

\* handleRaffleTitleChange of the titled variant
RaffleTitleChange ==
    /\ mounted
    /\ variant = "titled"
    /\ ~controlsDisabled
    /\ \E t \in Titles : raffleTitle' = t
    /\ raffleError' = ""
    /\ last' = ""
    /\ UNCHANGED <<variant, rosterVars, engineVars>>

\* the callback of the inactivity timer of the titled variant: the effect on
\* [isSpinning] clears the timer while a spin runs and arms it otherwise, and
\* the unmount clears it
InactivityTimeout ==
    /\ mounted
    /\ variant = "titled"
    /\ ~isSpinning
    /\ raffleTitle' = <<>>
    /\ last' = ""
    /\ UNCHANGED <<variant, rosterVars, raffleError, engineVars>>

\* initializeBackgroundMusic(): the pad, the melody with its first timeout and
\* the noise bed are started unless they exist or no context can be had
musicStarted(a) ==
    IF a.backgroundMusic THEN a
    ELSE LET b == createContext(a)
         IN  IF b.context = "none" THEN b
             ELSE [b EXCEPT !.backgroundMusic = TRUE, !.timeouts = 1]

\* toggleMute: initializeBackgroundMusic(); setIsMuted(prev => !prev)
ToggleMute ==
    /\ mounted
    /\ audio.backgroundMusic \/ canCreateContext(audio)
    /\ audio' = [musicStarted(audio) EXCEPT !.isMuted = ~@]
    /\ last' = ""
    /\ UNCHANGED <<variant, rosterVars, titleVars, winner, isSpinning, isReturning,
                   rotation, preSpinRotation, tickCount, winnerHistory,
                   animationFrameId, pending, spins, cancelledRuns, mounted>>

\* playMelodyNote run by its timeout: it returns at once on a closed context,
\* else plays a note and pushes the next timeout onto the same array
MelodyTimer ==
    /\ audio.timeouts > 0
    /\ audio' = [audio EXCEPT !.stale = @ \/ ~mounted]
    /\ last' = ""
    /\ UNCHANGED <<variant, rosterVars, titleVars, winner, isSpinning, isReturning,
                   rotation, preSpinRotation, tickCount, winnerHistory,
                   animationFrameId, pending, spins, cancelledRuns, mounted>>

\* backgroundMusic.timeouts.forEach(clearTimeout), run only inside
\* if (context && context.state !== 'closed')
timeoutsAfterUnmount(a) ==
    IF a.context = "running" THEN 0 ELSE a.timeouts

\* the cleanup of the mount effect: cancel the scheduled frame, stop the
\* sources, clear the melody timeouts, close the context (the titled variant
\* clears its inactivity timer first)
Unmount ==
    /\ mounted
    /\ mounted' = FALSE
    /\ pending' = cancelPending
    /\ audio' = [audio EXCEPT !.timeouts = timeoutsAfterUnmount(audio),
                              !.context = IF @ = "running" THEN "closed" ELSE @]
    /\ last' = ""
    /\ UNCHANGED <<variant, rosterVars, titleVars, winner, isSpinning, isReturning,
                   rotation, preSpinRotation, tickCount, winnerHistory,
                   animationFrameId, spins, cancelledRuns>>

\* the sequences of at most n elements of S
RECURSIVE SeqsUpTo(_, _)
SeqsUpTo(S, n) ==
    IF n = 0 THEN { <<>> }
    ELSE LET shorter == SeqsUpTo(S, n - 1)
         IN  shorter \cup { Append(b, x) : b \in shorter, x \in S }

Next ==
    \/ HandleSpin
    \/ SpinFrame
    \/ ReturnFrame
    \/ HandleStopSpin
    \/ ResetRaffle
    \/ AddParticipant
    \/ RemoveParticipant
    \/ RemoveWinnerEntries
    \/ ClearAll
    \/ ShuffleWheel
    \/ RaffleTitleChange
    \/ WinSoundTimer
    \/ InactivityTimeout

Spec == Init /\ [][Next]_vars

\* ------------------------------------------- engine-only specification
\* the spin engine started on a roster of 2..MaxN names that is already in
\* place (loaded from localStorage, or typed in before), title entered
NameOf(i) == <<"a">> \o [j \in 1..i |-> "1"]

RosterOfSize(n) == [i \in 1..n |-> NameOf(i)]

InitSpin ==
    /\ variant \in {"wheel", "titled"}
    /\ \E n \in 2..MaxN : participants = RosterOfSize(n)
    /\ wheelParticipants = participants
    /\ winner = Null
    /\ isSpinning = FALSE
    /\ isReturning = FALSE
    /\ rotation = 0
    /\ preSpinRotation = 0
    /\ tickCount = 0
    /\ winnerHistory = <<>>
    /\ raffleTitle = <<"r">>
    /\ raffleError = ""
    /\ animationFrameId = 0
    /\ pending = {}
    /\ spins = 0
    /\ last = ""
    /\ cancelledRuns = {}
    /\ audio = AudioAtLoad(TRUE)
    /\ mounted = TRUE

NextSpin ==
    \/ HandleSpin
    \/ SpinFrame

SpecSpin == InitSpin /\ [][NextSpin]_vars

\* ------------------------------------------- roster-only specification
\* names typed into the name field: three with the same letters (Lucas,
\* $10 Lucas, Lucas2), one with other letters, one without letters, spellings
\* of these that differ in case or in surrounding blanks, and a blank name
RosterNames == { <<"a">>, <<"$", "a">>, <<"a", "2">>, <<"b">>, <<"$">>,
                 <<"A">>, <<" ", "b", " ">>, <<" ">> }

\* names pasted into the Add List dialog
BatchNames == { <<"a">>, <<"$", "a">>, <<"A">>, <<" ", "b", " ">>, <<" ">> }

Batches == SeqsUpTo(BatchNames, MaxBatch) \ { <<>> }

\* names the completed spin may have returned
WinnerNames == { <<"$", "a">>, <<"b">> }

\* the program with an empty roster: freshly loaded, or with the winner of a
\* completed two-name spin still displayed after both names were removed
\* with their remove buttons
InitRoster ==
    /\ variant \in {"wheel", "titled"}
    /\ participants = <<>>
    /\ wheelParticipants = <<>>
    /\ winner \in WinnerNames \cup {Null}
    /\ isSpinning = FALSE
    /\ isReturning = FALSE
    /\ rotation = IF winner = Null THEN 0 ELSE targetRotation(2, 0, 0)
    /\ preSpinRotation = 0
    /\ tickCount = 0
    /\ raffleTitle = IF variant = "titled" /\ winner # Null THEN <<"r">> ELSE <<>>
    /\ winnerHistory =
         IF winner = Null THEN <<>>
         ELSE << [winnerName |-> winner,
                  raffleTitle |-> IF variant = "wheel" THEN PrizeWheelRaffle
                                  ELSE <<"r">>] >>
    /\ raffleError = ""
    /\ animationFrameId = 0
    /\ pending = {}
    /\ spins = IF winner = Null THEN 0 ELSE 1
    /\ last = ""
    /\ cancelledRuns = {}
    /\ audio = AudioAtLoad(TRUE)
    /\ mounted = TRUE

AddName == \E name \in RosterNames : addParticipant(name)

AddMultipleParticipants == \E names \in Batches : addMultipleParticipants(names)

NextRoster ==
    \/ AddName
    \/ AddMultipleParticipants
    \/ RemoveParticipant
    \/ RemoveWinnerEntries
    \/ ClearAll
    \/ ReturnFrame

SpecRoster == InitRoster /\ [][NextRoster]_vars

\* ------------------------------------- roster-and-wheel specification
\* the roster controls and the Shuffle button on rosters of up to three names
WheelNames == { <<"a">>, <<"$", "a">>, <<"b">>, <<" ">> }

AddWheelName == \E name \in WheelNames : addParticipant(name)

AddWheelList ==
    \E names \in SeqsUpTo(WheelNames, MaxBatch) \ { <<>> } :
        addMultipleParticipants(names)

NextWheel ==
    \/ AddWheelName
    \/ AddWheelList
    \/ RemoveParticipant
    \/ RemoveWinnerEntries
    \/ ClearAll
    \/ ShuffleWheel
    \/ ReturnFrame

SpecWheel == InitRoster /\ [][NextWheel]_vars

\* ------------------------------------------- whole-widget specification
\* the widget on a roster of two names that is already in place, in a browser
\* that can or cannot create an audio context, from its mount to its unmount
InitWidget ==
    /\ variant \in {"wheel", "titled"}
    /\ participants = RosterOfSize(2)
    /\ wheelParticipants = participants
    /\ winner = Null
    /\ isSpinning = FALSE
    /\ isReturning = FALSE
    /\ rotation = 0
    /\ preSpinRotation = 0
    /\ tickCount = 0
    /\ winnerHistory = <<>>
    /\ raffleTitle = <<"r">>
    /\ raffleError = ""
    /\ animationFrameId = 0
    /\ pending = {}
    /\ spins = 0
    /\ last = ""
    /\ cancelledRuns = {}
    /\ \E available \in BOOLEAN : audio = AudioAtLoad(available)
    /\ mounted = TRUE

NextWidget ==
    \/ HandleSpin
    \/ SpinFrame
    \/ ReturnFrame
    \/ HandleStopSpin
    \/ ResetRaffle
    \/ ShuffleWheel
    \/ ClearAll
    \/ ToggleMute
    \/ MelodyTimer
    \/ WinSoundTimer
    \/ Unmount

SpecWidget == InitWidget /\ [][NextWidget]_vars

\* ------------------------------------------ shuffle-only specification
\* the roster controls on a roster of 2..MaxN names that is already in place
NextShuffle ==
    \/ ShuffleWheel
    \/ RemoveParticipant

SpecShuffle == InitSpin /\ [][NextShuffle]_vars

\* ===================================================================
\* Properties
\* ===================================================================
spinCallbacks == { c \in pending : c.kind = "spin" }

returnCallbacks == { c \in pending : c.kind = "return" }

\* the step is the completion branch of spin callback c
SpinCompletes(c) ==
    /\ c \in pending
    /\ c.kind = "spin"
    /\ Len(winnerHistory') = Len(winnerHistory) + 1

\* the step is a non-final frame of spin callback c
SpinAdvances(c) ==
    /\ c \in pending
    /\ c.kind = "spin"
    /\ \E d \in pending' : d.kind = "spin" /\ d.run = c.run /\ d.elapsed > c.elapsed

\* the step is the completion branch of return callback c
ReturnCompletes(c) ==
    /\ c \in pending
    /\ c.kind = "return"
    /\ pending' = pending \ {c}
    /\ animationFrameId' = 0

\* what a rejected spin() must leave alone
spinState == <<pending, animationFrameId, preSpinRotation, rotation, winner,
               isSpinning, isReturning, tickCount, winnerHistory, spins>>

\* C1: spin() called while a spin is in flight (also right after the first call,
\* before any frame has run) or while Returning starts no second spin: the
\* pending frame callback with its winner index and target, preSpinRotation and
\* the rest of the engine state are unchanged.
C1_SpinReentryIsNoop ==
    [][(Phase # "Idle" /\ HandleSpin) => UNCHANGED spinState]_vars

\* a second spin() was rejected while the first spin's callback had not run yet
C1_Witness ==
    /\ last = "spinNoop"
    /\ Phase = "Spinning"
    /\ \E c \in spinCallbacks : c.elapsed = -1
    /\ Cardinality(pending) = 1

PhaseEdge == <<Phase, Phase'>>

ClaimedEdges == { <<"Idle", "Spinning">>, <<"Spinning", "Idle">>,
                  <<"Spinning", "Returning">>, <<"Returning", "Idle">> }

C3_WinnerFromAcceptedRoster ==
    [][\A c \in pending : SpinCompletes(c) =>
          /\ c.n = Len(c.names)
          /\ c.widx \in 0..(c.n - 1)
          /\ winner' = c.names[c.widx + 1]
          /\ winner' # Null
          /\ winnerHistory' = Append(winnerHistory,
                                     [winnerName |-> c.names[c.widx + 1],
                                      raffleTitle |-> recordTitle(c)])]_vars

\* a spin completed on the last index of a two-name wheel roster that had been
\* shuffled away from the master order before the spin was accepted
C3_Witness ==
    /\ winner # Null
    /\ Phase = "Idle"
    /\ Len(wheelParticipants) = 2
    /\ rotation >= fullRotations
    /\ segmentAt(pointerAngle(rotation), 2) = 1
    /\ wheelParticipants[2] = winner
    /\ participants[2] # winner
    /\ winnerHistory[Len(winnerHistory)].winnerName = winner

Abs(x) == IF x < 0 THEN -x ELSE x

\* C4: the final rotation R of a completed spin puts the wheel angle under the
\* pointer, (360 - R mod 360) mod 360, inside segment w = winner index, in
\* [w*360/n, (w+1)*360/n), and within 0.4*360/n of that segment's centre.
C4_StopsInsideWinningSegment ==
    [][\A c \in pending : SpinCompletes(c) =>
          LET theta  == pointerAngle(rotation')
              seg    == segmentAngle(c.n)
              centre == seg * c.widx + seg \div 2
          IN  /\ c.n >= 2
              /\ theta >= c.widx * seg
              /\ theta < (c.widx + 1) * seg
              /\ segmentAt(theta, c.n) = c.widx
              /\ Abs(theta - centre) * 10 <= 4 * seg]_vars

\* a spin on three names completed on the last index with the extreme jitter
\* draw (Math.random() = 0): the pointer is 0.4 of a segment past the centre
C4_Witness ==
    /\ Len(wheelParticipants) = 3
    /\ winner = wheelParticipants[3]
    /\ Phase = "Idle"
    /\ rotation >= fullRotations
    /\ pointerAngle(rotation) = winnerAngle(3, 2) + (segmentAngle(3) * 4) \div 10

\* segment boundaries (multiples of 360/n) on the path from the start angle to
\* the target rotation
crossings(c) ==
    tickIndex(c.target, segmentAngle(c.n)) - tickIndex(c.start, segmentAngle(c.n))

\* C5: at completion the tick counter has grown by exactly the number of
\* segment boundaries between the start angle and the target rotation,
\* whatever frame timestamps were delivered.
C5_TicksEqualCrossings ==
    [][\A c \in pending : SpinCompletes(c) => tickCount' - c.ticks0 = crossings(c)]_vars

\* C6 as claimed: while Spinning the rotation never decreases from one state
\* to the next, whatever the starting rotation.
C6_Original ==
    [][(Phase = "Spinning" /\ Phase' # "Returning") => rotation' >= rotation]_vars

\* the step is the first call of spin callback c (startTime not yet set)
FirstSpinFrame(c) ==
    /\ c \in pending
    /\ c.kind = "spin"
    /\ c.elapsed = -1
    /\ \E d \in pending' : d.kind = "spin" /\ d.run = c.run /\ d.elapsed = 0

\* C6 amended: while Spinning the rotation never decreases from one state to
\* the next, except that the first frame of a spin writes the starting
\* rotation reduced mod 360 (a drop by whole turns when the spin starts from
\* the rotation left by an earlier completed spin).
C6_ForwardAfterFirstFrame ==
    [][(Phase = "Spinning" /\ Phase' # "Returning") =>
          \/ rotation' >= rotation
          \/ \E c \in pending : /\ FirstSpinFrame(c)
                                /\ rotation' = rotation % FullTurn
                                /\ rotation = preSpinRotation]_vars

\* a second spin, started from the rotation an earlier completed spin left,
\* has run a frame past its first one
C6_Witness ==
    /\ Phase = "Spinning"
    /\ preSpinRotation >= fullRotations
    /\ \E c \in spinCallbacks : c.elapsed >= 1 /\ rotation > c.start

\* C7: when the return animation started by stop() completes, the rotation is
\* exactly the preSpinRotation captured when the spin was accepted, winner is
\* null and the phase is Idle.
C7_StopReturnsToPreSpin ==
    [][\A c \in pending : (ReturnCompletes(c) /\ c.endsSpin) =>
          /\ rotation' = preSpinRotation
          /\ preSpinRotation' = preSpinRotation
          /\ winner' = Null
          /\ Phase' = "Idle"]_vars

\* a spin started from a non-zero rotation was stopped after it had moved and
\* the return animation has completed
C7_Witness ==
    /\ Phase = "Idle"
    /\ spins \in cancelledRuns
    /\ pending = {}
    /\ preSpinRotation >= fullRotations
    /\ rotation = preSpinRotation
    /\ winner = Null
    /\ tickCount > 0

\* C8: no frame callback of a spin that stop() cancelled is scheduled, so it
\* never runs again (sets no winner, appends no record, counts no tick and
\* writes no rotation).
C8_CancelledSpinNeverScheduled ==
    \A c \in pending : c.kind = "spin" => c.run \notin cancelledRuns

\* stop() has cancelled a spin that had run frames; only the return callback
\* is scheduled
C8_Witness ==
    /\ spins \in cancelledRuns
    /\ Phase = "Returning"
    /\ tickCount > 0
    /\ spinCallbacks = {}
    /\ \E c \in returnCallbacks : c.endsSpin /\ c.elapsed = -1

\* C9: at most one animation frame callback is scheduled at any moment, and
\* it is the one animationFrameId refers to.
C9_SingleFrameCallback ==
    /\ Cardinality(pending) <= 1
    /\ \A c \in pending : c.id = animationFrameId

\* the return animation is the one scheduled callback right after a reset()
\* interrupted a running spin
C9_Witness ==
    /\ variant = "wheel"
    /\ isSpinning /\ isReturning
    /\ Cardinality(pending) = 1
    /\ \E c \in returnCallbacks : ~c.endsSpin /\ c.elapsed = -1 /\ c.start > c.target

\* C10: spin() with fewer than 2 entrants on the wheel changes nothing of the
\* engine and schedules no frame; every scheduled spin has at least 2 entrants.
C10_NoSpinBelowTwoEntrants ==
    [][/\ (Len(wheelParticipants) < 2 /\ HandleSpin) => UNCHANGED spinState
       /\ \A c \in spinCallbacks' : c.n >= 2 /\ Len(c.names) >= 2]_vars

\* spin() was rejected on a one-name roster
C10_Witness ==
    /\ last = "spinNoop"
    /\ Len(wheelParticipants) = 1
    /\ Phase = "Idle"
    /\ pending = {}
    /\ spins = 0

\* what a rejected stop() must leave alone
stopState == <<pending, animationFrameId, rotation, winner, isSpinning,
               isReturning, winnerHistory>>

\* C11: stop() called when the phase is not Spinning (Idle, or already
\* Returning) schedules and cancels no frame, does not restart the return
\* animation, and leaves rotation, winner, phase and history unchanged.
C11_StopOutsideSpinningIsNoop ==
    [][(Phase # "Spinning" /\ HandleStopSpin) => UNCHANGED stopState]_vars

\* C12: the frame of a spin that sees elapsed >= duration (never its first
\* frame) sets rotation to 12 full turns + targetStopAngle + jitter, sets the
\* winner, leaves the phase Idle and no frame scheduled; the spin has no
\* callback afterwards, so the completion happens once per accepted spin.
C12_CompletionEffects ==
    [][\A c \in pending : SpinCompletes(c) =>
          /\ c.elapsed >= 0
          /\ \E q \in JitterQuarters :
                rotation' = 12 * FullTurn + targetStopAngle(c.n, c.widx)
                              + randomOffset(c.n, q)
          /\ winner' = c.names[c.widx + 1]
          /\ winner' # Null
          /\ Phase' = "Idle"
          /\ pending' = {}
          /\ animationFrameId' = 0
          /\ \A d \in pending' : d.run # c.run
          /\ Len(winnerHistory') + Cardinality(spinCallbacks')
                + Cardinality(cancelledRuns') <= spins']_vars

\* two spins were accepted and both have completed, each once
C12_Witness ==
    /\ spins = 2
    /\ Len(winnerHistory) = 2
    /\ cancelledRuns = {}
    /\ Phase = "Idle"
    /\ pending = {}
    /\ animationFrameId = 0
    /\ winner = winnerHistory[2].winnerName
    /\ rotation >= fullRotations

\* the step sets a winner from a scheduled spin callback
WinnerSet == winner' # Null /\ winner = Null /\ spinCallbacks # {}

\* C13: the history changes only by a completed spin appending one record
\* whose winnerName is the winner just set (earlier records keep their value
\* and place); spin(), stop(), reset(), shuffle, the roster edits and the
\* return animation leave it unchanged.
C13_HistoryAppendOnly ==
    [][/\ \/ UNCHANGED winnerHistory
          \/ /\ WinnerSet
             /\ Len(winnerHistory') = Len(winnerHistory) + 1
             /\ SubSeq(winnerHistory', 1, Len(winnerHistory)) = winnerHistory
       /\ WinnerSet =>
             /\ Len(winnerHistory') = Len(winnerHistory) + 1
             /\ winnerHistory'[Len(winnerHistory')].winnerName = winner'
       /\ (\/ HandleSpin \/ HandleStopSpin \/ ResetRaffle \/ ShuffleWheel
           \/ AddParticipant \/ RemoveParticipant \/ RemoveWinnerEntries
           \/ ClearAll \/ ReturnFrame) => UNCHANGED winnerHistory]_vars

\* a second spin has appended a record that differs from the first, which is
\* still in first place, after a reset and a roster edit in between
C13_Witness ==
    /\ Len(winnerHistory) = 2
    /\ winnerHistory[1] # winnerHistory[2]
    /\ winner = winnerHistory[2].winnerName
    /\ Len(participants) = 1

\* C14: reset() called when the phase is not Returning clears the winner and
\* starts the return-to-rest animation (phase Returning), which ends Idle with
\* rotation = preSpinRotation, also when no spin preceded it; reset() called
\* while Returning changes nothing.
C14_ResetReturnsToRest ==
    [][/\ (Phase # "Returning" /\ ResetRaffle) =>
             /\ winner' = Null
             /\ Phase' = "Returning"
             /\ \E c \in returnCallbacks' : c.target = preSpinRotation
       /\ \A c \in pending : (ReturnCompletes(c) /\ ~c.endsSpin) =>
             /\ Phase' = "Idle"
             /\ rotation' = preSpinRotation
       /\ (Phase = "Returning" /\ ResetRaffle) => UNCHANGED stopState]_vars

\* first lower-cased core name equal
coreEqual(p, q) == toLowerCase(getCoreName(p)) = toLowerCase(getCoreName(q))

\* where the claim places an accepted name: right after the last entry with
\* the same core name, or at the end
claimedPosition(list, newName) ==
    LET S == { i \in 1..Len(list) : coreEqual(list[i], newName) }
    IN  IF S = {} THEN Len(list) + 1
        ELSE (CHOOSE i \in S : \A j \in S : j <= i) + 1

\* C15: an accepted addParticipant(name) inserts the trimmed name right after
\* the last entry with the same core name ignoring case, or at the end when
\* there is none, and the other entries keep their order; Lucas, $10 Lucas,
\* Lucas2 added to an empty roster give [Lucas, $10 Lucas, Lucas2].
C15_InsertAfterLastSimilar ==
    [][/\ \A name \in RosterNames :
            (last' = "" /\ participants' # participants /\ addParticipant(name)) =>
               LET newName == trim(name)
                   pos     == claimedPosition(participants, newName)
               IN  /\ Len(participants') = Len(participants) + 1
                   /\ participants'[pos] = newName
                   /\ removeAt(participants', pos) = participants
       /\ addedTo(addedTo(addedTo(<<>>, <<"a">>), <<"$", "a">>), <<"a", "2">>)
             = << <<"a">>, <<"$", "a">>, <<"a", "2">> >>]_vars

\* Lucas, $10 Lucas and Lucas2 have been added and stand in one group in front
\* of a name with other letters
C15_Witness ==
    /\ participants = << <<"a">>, <<"$", "a">>, <<"a", "2">>, <<"b">> >>
    /\ wheelParticipants = participants
    /\ last = ""
    /\ winner = Null

\* C16: addParticipant(name) changes nothing and reports no error when the
\* name is empty after trimming or equals an existing entry ignoring case; a
\* name that only shares the core name of an existing entry is added.
C16_EmptyOrDuplicateIgnored ==
    [][\A name \in RosterNames :
          LET newName == trim(name)
              dup == \E i \in 1..Len(participants) :
                        toLowerCase(participants[i]) = toLowerCase(newName)
          IN  (last' # "batch" /\ addParticipant(name)) =>
                /\ (newName = <<>> \/ dup) =>
                      UNCHANGED <<rosterVars, titleVars, engineVars>>
                /\ (newName # <<>> /\ ~dup /\ ~controlsDisabled) =>
                      /\ Len(participants') = Len(participants) + 1
                      /\ \E i \in 1..Len(participants') : participants'[i] = newName]_vars

\* a name was rejected on a roster that holds two entries with the same core
\* name (the second was accepted)
C16_Witness ==
    /\ last = "addNoop"
    /\ participants = << <<"a">>, <<"$", "a">> >>
    /\ raffleError = ""

\* addParticipant applied to each name of the batch in order
RECURSIVE addEach(_, _)
addEach(list, names) ==
    IF names = <<>> THEN list ELSE addEach(addedTo(list, Head(names)), Tail(names))

\* C17: for every roster and every batch of raw names (blank names and names
\* repeated inside the batch included) addMultipleParticipants(batch) gives
\* the roster that addParticipant gives when called on each name in order.
C17_BatchEqualsSequence ==
    \A names \in Batches :
       batchAddedTo(participants, names) = addEach(participants, names)

\* a batch has been applied and left a decorated name after its plain form
C17_Witness ==
    /\ last = "batch"
    /\ participants = << <<"a">>, <<"$", "a">>, <<"b">> >>
    /\ wheelParticipants = participants

\* the k-th smallest element of a set of indices
kth(S, k) == CHOOSE i \in S : Cardinality({ j \in S : j <= i }) = k

\* C18: removeWinnerEntries(w) removes exactly the entries whose core name
\* equals that of w ignoring case and keeps the others in their order;
\* removing $10 Lucas from [Ann, Lucas, $10 Lucas, Lucas2, Bob] leaves
\* [Ann, Bob].
C18_RemovesEveryVariant ==
    [][/\ (winner # Null /\ RemoveWinnerEntries) =>
            LET keep == { i \in 1..Len(participants) :
                            ~coreEqual(participants[i], winner) }
            IN  /\ Len(participants') = Cardinality(keep)
                /\ \A k \in 1..Len(participants') :
                      participants'[k] = participants[kth(keep, k)]
       /\ withoutCore(<< <<"b">>, <<"a">>, <<"$", "a">>, <<"a", "2">>, <<"$">> >>,
                      <<"$", "a">>)
             = << <<"b">>, <<"$">> >>]_vars

\* several entries were removed for the winner $10 Lucas (the wheel variant
\* is returning to rest) and the two other names are left in order
C18_Witness ==
    /\ last = "removedSeveral"
    /\ variant = "wheel"
    /\ isReturning
    /\ winner = Null
    /\ Len(winnerHistory) = 1
    /\ winnerHistory[1].winnerName = <<"$", "a">>
    /\ participants = << <<"b">>, <<"$">> >>

\* all orderings of the entries of s
RECURSIVE Perms(_)
Perms(s) ==
    IF s = <<>> THEN { <<>> }
    ELSE UNION { { <<s[i]>> \o p : p \in Perms(removeAt(s, i)) } : i \in 1..Len(s) }

\* C19: shuffle() replaces the wheel roster by a permutation of itself and
\* leaves the master roster, the winner, the rotation and the history
\* unchanged; every permutation of the wheel roster is a possible result.
C19_ShuffleIsAnyPermutation ==
    [][/\ shuffled(wheelParticipants) = Perms(wheelParticipants)
       /\ (~shuffleDisabled /\ ShuffleWheel) =>
             /\ wheelParticipants' \in Perms(wheelParticipants)
             /\ UNCHANGED <<participants, winner, rotation, winnerHistory>>]_vars

\* the wheel roster of four names is the master roster reversed
C19_Witness ==
    /\ Len(participants) = 4
    /\ Len(wheelParticipants) = 4
    /\ \A i \in 1..4 : wheelParticipants[i] = participants[5 - i]

groupedTogether(list) ==
    \A i, j \in 1..Len(list) :
        (i < j /\ sameCore(list[i], list[j])) =>
            \A m \in i..j : sameCore(list[m], list[i])

\* C25: starting from an empty roster, after any sequence of addParticipant,
\* addMultipleParticipants, removeParticipant, removeWinnerEntries and clear,
\* entries of the master roster that share a core name (ignoring case)
\* occupy consecutive positions
C25_SameCoreConsecutive == groupedTogether(participants)

\* a roster in which a later arrival was placed inside the roster, next to
\* the entries of its core name, with a different name after the group
C25_Witness ==
    /\ Len(participants) >= 4
    /\ sameCore(participants[1], participants[2])
    /\ sameCore(participants[2], participants[3])
    /\ ~sameCore(participants[3], participants[4])
    /\ participants[3] = <<"$", "a">>

\* ------------------------------------------------------------------ C26
noBlankOrPadded(list) ==
    \A i \in 1..Len(list) : list[i] # <<>> /\ trim(list[i]) = list[i]

noDuplicates(list) ==
    \A i, j \in 1..Len(list) :
        toLowerCase(list[i]) = toLowerCase(list[j]) => i = j

\* C26: starting from an empty roster, after any sequence of add, batch-add,
\* remove, remove-winner and clear operations the master roster holds no
\* empty name, no name with leading or trailing whitespace, and no two
\* entries that are equal ignoring case
C26_RosterNormalForm ==
    /\ noBlankOrPadded(participants)
    /\ noDuplicates(participants)

\* a roster holding "b" and "A" right after an add was rejected
C26_Witness ==
    /\ \E i \in 1..Len(participants) : participants[i] = <<"b">>
    /\ \E i \in 1..Len(participants) : participants[i] = <<"A">>
    /\ last = "addNoop"

\* ------------------------------------------------------------------ C27
isPermutation(s, t) ==
    /\ Len(s) = Len(t)
    /\ \A x \in { s[i] : i \in 1..Len(s) } \cup { t[i] : i \in 1..Len(t) } :
          Cardinality({ i \in 1..Len(s) : s[i] = x }) =
          Cardinality({ i \in 1..Len(t) : t[i] = x })

\* C27: in every settled state the wheel roster is a permutation of the
\* master roster, and every step that changes the master roster (add,
\* batch-add, remove, remove-winner, clear) leaves the wheel roster in
\* exactly the master order, whatever order a shuffle had given it
C27_WheelFollowsMaster ==
    [][ /\ isPermutation(wheelParticipants, participants)
        /\ isPermutation(wheelParticipants', participants')
        /\ (participants' # participants => wheelParticipants' = participants') ]_vars

\* a removal has just changed a master roster that still has two names, and
\* the wheel shows them in master order
C27_Witness ==
    /\ last = "removedOne"
    /\ Len(participants) >= 2
    /\ wheelParticipants = participants

\* ------------------------------------------------------------------ C24
\* the rotation drawn by the frame before the next frame of callback c (the
\* start angle before its first frame)
previousFrameAngle(c) == IF c.elapsed = -1 THEN c.start ELSE rotation

\* C24: in each non-final spin frame the tick counter goes up by exactly 1,
\* and the tick sound is played in that same callback, if
\* floor(rotation / segmentAngle) is greater than it was at the previous
\* frame, and by 0 (no tick sound) otherwise; no step of any operation
\* (stop, reset, a new spin, roster edits) lowers or resets the tick counter
C24_TickOnIndexIncrease ==
    [][ /\ tickCount' >= tickCount
        /\ \A c \in spinCallbacks : SpinAdvances(c) =>
              LET inc == IF tickIndex(rotation', segmentAngle(c.n)) >
                            tickIndex(previousFrameAngle(c), segmentAngle(c.n))
                         THEN 1 ELSE 0
              IN  /\ tickCount' = tickCount + inc
                  /\ audio'.tickSounds = audio.tickSounds + inc ]_vars

\* the second spin is under way: its first frame counted nothing, a later
\* frame counted one tick and played one tick sound on top of the ticks of
\* the first spin
C24_Witness ==
    \E c \in spinCallbacks :
        /\ c.run = 2
        /\ c.elapsed >= 1
        /\ c.ticks0 >= 1
        /\ tickCount = c.ticks0 + 1
        /\ audio.tickSounds = tickCount

\* ------------------------------------------------------------------ C29
\* C29: the winner is non-null only while the phase is Idle: in every
\* reachable Spinning or Returning state it is null; an accepted spin and an
\* accepted reset() leave it null, and only the completion of a spin sets it
C29_WinnerOnlyWhileIdle ==
    [][ /\ Phase # "Idle" => winner = Null
        /\ Phase' # "Idle" => winner' = Null
        /\ (spins' = spins + 1) => winner' = Null
        /\ (ResetRaffle /\ ~isReturning) => winner' = Null
        /\ (winner' # Null /\ winner' # winner) =>
              \E c \in spinCallbacks : SpinCompletes(c) /\ winner' = finalWinner(c)
      ]_vars

\* a second spin is under way with no winner on display, after the first
\* spin completed and set one
C29_Witness ==
    /\ Phase = "Spinning"
    /\ spins = 2
    /\ Len(winnerHistory) = 1
    /\ winner = Null
    /\ cancelledRuns = {}

\* ------------------------------------------------------------------ C30
\* everything but the error message (and the marker of the last operation)
allButError == <<variant, participants, wheelParticipants, winner, isSpinning,
                 isReturning, rotation, preSpinRotation, tickCount, winnerHistory,
                 raffleTitle, animationFrameId, pending, spins, cancelledRuns,
                 audio, mounted>>

\* C30: in the variant that requires a raffle title, spin() with an empty or
\* whitespace-only title starts no spin and changes only the error message,
\* which becomes 'Raffle name is required'; every record appended to the
\* history carries the non-empty trimmed title that was in effect when its
\* spin was accepted (it is still in effect at completion), never
\* 'General Raffle'
C30_TitleRequired ==
    [][ /\ (variant = "titled" /\ trim(raffleTitle) = <<>> /\ HandleSpin) =>
              /\ raffleError' = RaffleNameRequired
              /\ UNCHANGED allButError
        /\ (variant = "titled" /\ spins' = spins + 1) =>
              /\ trim(raffleTitle) # <<>>
              /\ \A c \in pending' \ pending : c.title = raffleTitle
        /\ \A c \in spinCallbacks : (variant = "titled" /\ SpinCompletes(c)) =>
              LET record == winnerHistory'[Len(winnerHistory')]
              IN  /\ c.title = raffleTitle
                  /\ record.raffleTitle = trim(c.title)
                  /\ record.raffleTitle # <<>>
                  /\ record.raffleTitle # GeneralRaffle ]_vars

\* a roster that could be spun and a history with a titled record, and the
\* spin just asked for was refused for want of a title
C30_Witness ==
    /\ variant = "titled"
    /\ raffleError = RaffleNameRequired
    /\ trim(raffleTitle) = <<>>
    /\ Len(wheelParticipants) >= 2
    /\ Len(winnerHistory) >= 1
    /\ ~isSpinning

\* ------------------------------------------------------------------ C28
\* C28: whenever the phase is Spinning or Returning a frame callback is
\* pending (so that, frames being delivered, every accepted spin ends in
\* Idle, completed or returned to preSpinRotation, however stop() and reset()
\* interleave with the frames): the engine is never left Spinning with no
\* animation running
C28_BusyMeansFramePending == Phase # "Idle" => pending # {}

\* ------------------------------------------------------------------ C22
\* the spins whose callback is still scheduled
runsInFlight == { c.run : c \in spinCallbacks }

\* C22: the win sound is triggered exactly once for each spin that completes
\* (no spin has it twice, and each record of the history has its win sound
\* played or due), and never for a spin that is ended by stop()
C22_WinSoundOncePerCompletedSpin ==
    LET played == audio.winSounds
    IN  /\ \A i \in 1..Len(played) : played[i] \notin cancelledRuns
        /\ \A i, j \in 1..Len(played) : played[i] = played[j] => i = j
        /\ Cardinality({ i \in 1..Len(played) : played[i] \notin runsInFlight })
             + Cardinality(audio.winTimers) = Len(winnerHistory)

\* ------------------------------------------------------------------ C21
\* C21: if the audio context cannot be created, every sound call is a no-op
\* (no context, no background music, no tick or win sound is ever played)
\* and the failure is logged once, whatever sequence of spin, stop, reset,
\* shuffle, clear and mute-toggle is run
C21_SilentAndLoggedOnce ==
    ~audio.available =>
        /\ audio.context = "none"
        /\ ~audio.backgroundMusic
        /\ audio.timeouts = 0
        /\ audio.tickSounds = 0
        /\ audio.winSounds = <<>>
        /\ audio.errors <= 1

\* ------------------------------------------------------------------ C23
\* C23: after the widget is unmounted no animation frame callback, melody
\* timer or other timer of the widget is pending or runs again, and the
\* audio context, if one was created, is closed
C23_NothingRunsAfterUnmount ==
    ~mounted =>
        /\ pending = {}
        /\ audio.timeouts = 0
        /\ audio.winTimers = {}
        /\ ~audio.stale
        /\ audio.context # "running"
====
